---- MODULE Spec2Model ----
(***************************************************************************)
(* Cross-contract balance query of the Welcome contract                    *)
(* (src/contract/src/lib.rs): get_ft_balance1 / get_ft_balance2 schedule a *)
(* remote ft_balance_of call and chain the callback on_get_balance, which  *)
(* authenticates its caller, reads the single promise result, decodes it   *)
(* as a U128 and logs it.                                                  *)
(*                                                                         *)
(* Texts and byte strings are sequences of one-character strings.  A u128  *)
(* is a sequence of NumLimbs limbs in base LimbBase, most significant      *)
(* first, so that the whole range 0 .. 2^128 - 1 is represented exactly.   *)
(***************************************************************************)
EXTENDS Integers, Sequences, FiniteSets, TLC

\* ------------------------------------------------------------------------
\* Bounds of the model
\* ------------------------------------------------------------------------
MaxChains == 2
MaxLen == 4

\* ------------------------------------------------------------------------
\* Program constants
\* ------------------------------------------------------------------------
NumLimbs == 5
LimbBase == 100000000

\* const GAS_BASE_COMPUTE: Gas = 5_000_000_000_000, as limbs in base LimbBase
GAS_BASE_COMPUTE == <<50000, 0>>
NO_DEPOSIT == 0

\* u128::MAX = 340282366920938463463374607431768211455
U128_MAX == <<3402823, 66920938, 46346337, 46074317, 68211455>>
U128_ZERO == <<0, 0, 0, 0, 0>>

Digits == <<"0", "1", "2", "3", "4", "5", "6", "7", "8", "9">>
DigitChars == {Digits[i] : i \in 1..10}
DigitVal(c) == (CHOOSE i \in 1..10 : Digits[i] = c) - 1

\* ------------------------------------------------------------------------
\* u128 arithmetic as from_str_radix uses it: checked_mul, checked_add
\* ------------------------------------------------------------------------
\* The loops of the code are recursive functions: the argument of a
\* function application is a value, computed once.

\* a <= b, comparing limbs from position i on
LimbsLeq[a \in Seq(Nat), b \in Seq(Nat), i \in Nat] ==
    IF i > Len(a) THEN TRUE
    ELSE IF a[i] < b[i] THEN TRUE
    ELSE IF a[i] > b[i] THEN FALSE
    ELSE LimbsLeq[a, b, i + 1]

\* v * m + carry over the limbs i, i-1, .., 1: [limbs, carry]
MulSmall[v \in Seq(Nat), m \in Nat, i \in Nat, carry \in Nat] ==
    IF i = 0 THEN [limbs |-> v, carry |-> carry]
    ELSE MulSmall[[v EXCEPT ![i] = (v[i] * m + carry) % LimbBase], m, i - 1,
                  (v[i] * m + carry) \div LimbBase]

NoneU128 == [some |-> FALSE, val |-> U128_ZERO]
SomeU128(v) == [some |-> TRUE, val |-> v]

\* overflow is not detected
Checked_Wrapping(r) == SomeU128(r.limbs)

\* overflow reported one value early
Checked_Strict(r) ==
    IF r.carry = 0 /\ LimbsLeq[r.limbs, U128_MAX, 1] /\ r.limbs # U128_MAX
    THEN SomeU128(r.limbs)
    ELSE NoneU128

Checked(r) ==
    IF r.carry = 0 /\ LimbsLeq[r.limbs, U128_MAX, 1] THEN SomeU128(r.limbs)
    ELSE NoneU128

\* u128::checked_mul(v, m) for a small m
CheckedMul(v, m) == Checked(MulSmall[v, m, NumLimbs, 0])

\* u128::checked_add(v, d) for a small d
CheckedAdd(v, d) == Checked(MulSmall[v, 1, NumLimbs, d])

\* ------------------------------------------------------------------------
\* str::parse::<u128>: from_str_radix(s, 10) of an unsigned type
\* ------------------------------------------------------------------------
\* the digits s[i..] folded into acc: result = result * 10 + digit, checked
ParseDigits[s \in Seq(STRING), i \in Nat, acc \in Seq(Nat)] ==
    IF i > Len(s) THEN SomeU128(acc)
    ELSE IF s[i] \notin DigitChars THEN NoneU128
    ELSE LET m == CheckedMul(acc, 10)
         IN  IF ~m.some THEN NoneU128
             ELSE LET a == CheckedAdd(m.val, DigitVal(s[i]))
                  IN  IF ~a.some THEN NoneU128
                      ELSE ParseDigits[s, i + 1, a.val]

FromStrRadix10[s \in Seq(STRING)] ==
    IF Len(s) = 0 THEN NoneU128
    ELSE IF Len(s) = 1 /\ s[1] \in {"+", "-"} THEN NoneU128
    ELSE IF s[1] = "+" THEN ParseDigits[s, 2, U128_ZERO]
    ELSE ParseDigits[s, 1, U128_ZERO]

\* ------------------------------------------------------------------------
\* Display of a u128 (format!("{}", balance.0)): decimal, no leading zeros
\* ------------------------------------------------------------------------
\* the k low decimal digits of limb x, most significant first
LimbDigits[x \in Nat, k \in Nat] ==
    IF k = 0 THEN <<>>
    ELSE Append(LimbDigits[x \div 10, k - 1], Digits[(x % 10) + 1])

\* the digits of the limbs v[i..], eight for each limb
AllDigits[v \in Seq(Nat), i \in Nat] ==
    IF i > Len(v) THEN <<>>
    ELSE LimbDigits[v[i], 8] \o AllDigits[v, i + 1]

StripZeros[d \in Seq(STRING)] ==
    IF Len(d) > 1 /\ d[1] = "0" THEN StripZeros[Tail(d)] ELSE d

\* all forty digits, leading zeros kept
FormatU128_Padded(v) == AllDigits[v, 1]

FormatU128(v) == StripZeros[AllDigits[v, 1]]

\* ------------------------------------------------------------------------
\* serde_json::from_slice::<String>: one JSON string, whitespace around it
\* ------------------------------------------------------------------------
Whitespace == {" ", "\t", "\n", "\r"}

HexDigits == <<"0", "1", "2", "3", "4", "5", "6", "7", "8", "9",
               "a", "b", "c", "d", "e", "f">>
UpperHex == <<"A", "B", "C", "D", "E", "F">>
HexChars == {HexDigits[i] : i \in 1..16} \cup {UpperHex[i] : i \in 1..6}
HexVal(c) ==
    IF \E i \in 1..16 : HexDigits[i] = c
    THEN (CHOOSE i \in 1..16 : HexDigits[i] = c) - 1
    ELSE (CHOOSE i \in 1..6 : UpperHex[i] = c) + 9

\* the four hex digits at b[i..i+3]: a code point, or -1
Hex4(b, i) ==
    IF i + 3 <= Len(b) /\ \A k \in 0..3 : b[i + k] \in HexChars
    THEN ((HexVal(b[i]) * 16 + HexVal(b[i + 1])) * 16 + HexVal(b[i + 2])) * 16
         + HexVal(b[i + 3])
    ELSE -1

\* the character of a code point; only the characters that str::parse::<u128>
\* tells apart are kept, every other one is "?"
CharOf(n) ==
    IF n >= 48 /\ n <= 57 THEN Digits[n - 47]
    ELSE IF n = 43 THEN "+"
    ELSE IF n = 45 THEN "-"
    ELSE "?"

SimpleEscape(c) ==
    CASE c = "\"" -> "\""
      [] c = "\\" -> "\\"
      [] c = "/" -> "/"
      [] c = "b" -> "BS"
      [] c = "f" -> "\f"
      [] c = "n" -> "\n"
      [] c = "r" -> "\r"
      [] c = "t" -> "\t"

NoString == [ok |-> FALSE, s |-> <<>>, next |-> 0]

\* the string whose opening quote precedes b[i]: its characters and the
\* position after the closing quote
ParseStr[b \in Seq(STRING), i \in Nat, acc \in Seq(STRING)] ==
    IF i > Len(b) THEN NoString
    ELSE IF b[i] = "\"" THEN [ok |-> TRUE, s |-> acc, next |-> i + 1]
    ELSE IF b[i] = "\\" THEN
        IF i + 1 > Len(b) THEN NoString
        ELSE IF b[i + 1] \in {"\"", "\\", "/", "b", "f", "n", "r", "t"}
             THEN ParseStr[b, i + 2, Append(acc, SimpleEscape(b[i + 1]))]
        ELSE IF b[i + 1] = "u" THEN
            LET n == Hex4(b, i + 2)
            IN  IF n < 0 THEN NoString
                ELSE IF n >= 56320 /\ n <= 57343 THEN NoString
                ELSE IF n >= 55296 /\ n <= 56319 THEN
                    IF i + 7 <= Len(b) /\ b[i + 6] = "\\" /\ b[i + 7] = "u"
                    THEN LET n2 == Hex4(b, i + 8)
                         IN  IF n2 >= 56320 /\ n2 <= 57343
                             THEN ParseStr[b, i + 12, Append(acc, "?")]
                             ELSE NoString
                    ELSE NoString
                ELSE ParseStr[b, i + 6, Append(acc, CharOf(n))]
        ELSE NoString
    ELSE IF b[i] \in {"\t", "\n", "\r", "\f", "BS"} THEN NoString
    ELSE ParseStr[b, i + 1, Append(acc, b[i])]

\* the first position from i on that holds no whitespace
SkipWhitespace[b \in Seq(STRING), i \in Nat] ==
    IF i <= Len(b) /\ b[i] \in Whitespace THEN SkipWhitespace[b, i + 1] ELSE i

FromSliceString(b) ==
    LET i == SkipWhitespace[b, 1]
    IN  IF i > Len(b) \/ b[i] # "\"" THEN NoString
        ELSE LET r == ParseStr[b, i + 1, <<>>]
             IN  IF ~r.ok THEN NoString
                 ELSE IF SkipWhitespace[b, r.next] <= Len(b) THEN NoString
                 ELSE r

\* serde_json::from_slice::<U128>(&x): U128 deserializes a String and parses
\* it as a u128
FromSliceU128(b) ==
    LET r == FromSliceString(b)
    IN  IF r.ok THEN FromStrRadix10[r.s] ELSE NoneU128

\* ------------------------------------------------------------------------
\* PromiseResult and the callback
\* ------------------------------------------------------------------------
Successful(x) == [tag |-> "Successful", bytes |-> x]
Failed == [tag |-> "Failed", bytes |-> <<>>]
NotReady == [tag |-> "NotReady", bytes |-> <<>>]

MsgAuth == "Callback can only be called from the contract"
MsgShape == "Contract expected a result on the callback"
MsgRemote == "Promise was not successful"
LogPrefix == "The received balance is "

Panic(msg, phases) ==
    [panicked |-> TRUE, msg |-> msg, value |-> U128_ZERO, phases |-> phases]
Return(v, phases) ==
    [panicked |-> FALSE, msg |-> "", value |-> v, phases |-> phases]

\* accepts any positive number of results
get_promise_result_AtLeastOne(results) ==
    IF Len(results) < 1 THEN Panic(MsgShape, <<>>)
    ELSE IF results[1].tag = "Successful"
         THEN LET d == FromSliceU128(results[1].bytes)
              IN  IF d.some
                  THEN Return(d.val, <<"CallbackOutcomeRetrieved", "Decoded">>)
                  ELSE Return(U128_ZERO,
                              <<"CallbackOutcomeRetrieved", "DecodeFallbackZero">>)
         ELSE Panic(MsgRemote, <<"CallbackOutcomeRetrieved">>)

\* unwrap() in place of unwrap_or(U128(0))
get_promise_result_Unwrap(results) ==
    IF Len(results) # 1 THEN Panic(MsgShape, <<>>)
    ELSE IF results[1].tag = "Successful"
         THEN LET d == FromSliceU128(results[1].bytes)
              IN  IF d.some
                  THEN Return(d.val, <<"CallbackOutcomeRetrieved", "Decoded">>)
                  ELSE Panic("called Result::unwrap() on an Err value",
                             <<"CallbackOutcomeRetrieved">>)
         ELSE Panic(MsgRemote, <<"CallbackOutcomeRetrieved">>)

\* a promise that was not successful yields zero
get_promise_result_DefaultOnFailure(results) ==
    IF Len(results) # 1 THEN Panic(MsgShape, <<>>)
    ELSE IF results[1].tag = "Successful"
         THEN LET d == FromSliceU128(results[1].bytes)
              IN  IF d.some
                  THEN Return(d.val, <<"CallbackOutcomeRetrieved", "Decoded">>)
                  ELSE Return(U128_ZERO,
                              <<"CallbackOutcomeRetrieved", "DecodeFallbackZero">>)
         ELSE Return(U128_ZERO, <<"CallbackOutcomeRetrieved", "DecodeFallbackZero">>)

\* fn get_promise_result() -> U128
get_promise_result(results) ==
    IF Len(results) # 1 THEN Panic(MsgShape, <<>>)
    ELSE IF results[1].tag = "Successful"
         THEN LET d == FromSliceU128(results[1].bytes)
              IN  IF d.some
                  THEN Return(d.val, <<"CallbackOutcomeRetrieved", "Decoded">>)
                  ELSE Return(U128_ZERO,
                              <<"CallbackOutcomeRetrieved", "DecodeFallbackZero">>)
         ELSE Panic(MsgRemote, <<"CallbackOutcomeRetrieved">>)

\* the predecessor is not compared with the current account
on_get_balance_NoAuth(pred, cur, results, recs) ==
    LET balance == get_promise_result(results)
        phases == <<"CallbackAuthenticated">> \o balance.phases
    IN  IF balance.panicked
        THEN [status |-> "Panicked", msg |-> balance.msg, logs |-> <<>>,
              records |-> recs, promises |-> <<>>, phases |-> phases]
        ELSE [status |-> "Ok", msg |-> "",
              logs |-> << <<LogPrefix>> \o FormatU128(balance.value) >>,
              records |-> recs, promises |-> <<>>, phases |-> phases]

\* a log line is written before the checks
on_get_balance_LogFirst(pred, cur, results, recs) ==
    LET early == << <<LogPrefix>> >>
    IN  IF pred # cur
        THEN [status |-> "Panicked", msg |-> MsgAuth, logs |-> early,
              records |-> recs, promises |-> <<>>, phases |-> <<>>]
        ELSE LET balance == get_promise_result(results)
                 phases == <<"CallbackAuthenticated">> \o balance.phases
             IN  IF balance.panicked
                 THEN [status |-> "Panicked", msg |-> balance.msg, logs |-> early,
                       records |-> recs, promises |-> <<>>, phases |-> phases]
                 ELSE [status |-> "Ok", msg |-> "",
                       logs |-> << <<LogPrefix>> \o FormatU128(balance.value) >>,
                       records |-> recs, promises |-> <<>>, phases |-> phases]

\* the promise result is fetched before the predecessor is compared
on_get_balance_CountFirst(pred, cur, results, recs) ==
    LET balance == get_promise_result(results)
    IN  IF balance.panicked
        THEN [status |-> "Panicked", msg |-> balance.msg, logs |-> <<>>,
              records |-> recs, promises |-> <<>>, phases |-> balance.phases]
        ELSE IF pred # cur
        THEN [status |-> "Panicked", msg |-> MsgAuth, logs |-> <<>>,
              records |-> recs, promises |-> <<>>, phases |-> balance.phases]
        ELSE [status |-> "Ok", msg |-> "",
              logs |-> << <<LogPrefix>> \o FormatU128(balance.value) >>,
              records |-> recs, promises |-> <<>>,
              phases |-> balance.phases \o <<"CallbackAuthenticated">>]

\* a remote call that was not successful is issued again
on_get_balance_Retry(pred, cur, results, recs) ==
    IF pred # cur
    THEN [status |-> "Panicked", msg |-> MsgAuth, logs |-> <<>>,
          records |-> recs, promises |-> <<>>, phases |-> <<>>]
    ELSE LET balance == get_promise_result(results)
             phases == <<"CallbackAuthenticated">> \o balance.phases
             again == [receiver |-> "usdt.token",
                       actions |-> <<[method |-> "ft_balance_of", args |-> <<>>,
                                      deposit |-> NO_DEPOSIT,
                                      gas |-> GAS_BASE_COMPUTE]>>,
                       after |-> <<>>]
         IN  IF balance.panicked /\ balance.msg = MsgRemote
             THEN [status |-> "Ok", msg |-> balance.msg, logs |-> <<>>,
                   records |-> recs, promises |-> <<again>>, phases |-> phases]
             ELSE IF balance.panicked
             THEN [status |-> "Panicked", msg |-> balance.msg, logs |-> <<>>,
                   records |-> recs, promises |-> <<>>, phases |-> phases]
             ELSE [status |-> "Ok", msg |-> "",
                   logs |-> << <<LogPrefix>> \o FormatU128(balance.value) >>,
                   records |-> recs, promises |-> <<>>, phases |-> phases]

\* the first balance received is kept in records and reported from then on
on_get_balance_Cached(pred, cur, results, recs) ==
    IF pred # cur
    THEN [status |-> "Panicked", msg |-> MsgAuth, logs |-> <<>>,
          records |-> recs, promises |-> <<>>, phases |-> <<>>]
    ELSE LET balance == get_promise_result(results)
             phases == <<"CallbackAuthenticated">> \o balance.phases
             cached == {kv \in recs : kv[1] = "balance"}
             shown == IF cached # {} THEN (CHOOSE kv \in cached : TRUE)[2]
                      ELSE FormatU128(balance.value)
         IN  IF balance.panicked
             THEN [status |-> "Panicked", msg |-> balance.msg, logs |-> <<>>,
                   records |-> recs, promises |-> <<>>, phases |-> phases]
             ELSE [status |-> "Ok", msg |-> "",
                   logs |-> << <<LogPrefix>> \o shown >>,
                   records |-> recs \cup {<<"balance", shown>>},
                   promises |-> <<>>, phases |-> phases]

\* the balance received is saved in records
on_get_balance_Store(pred, cur, results, recs) ==
    IF pred # cur
    THEN [status |-> "Panicked", msg |-> MsgAuth, logs |-> <<>>,
          records |-> recs, promises |-> <<>>, phases |-> <<>>]
    ELSE LET balance == get_promise_result(results)
             phases == <<"CallbackAuthenticated">> \o balance.phases
         IN  IF balance.panicked
             THEN [status |-> "Panicked", msg |-> balance.msg, logs |-> <<>>,
                   records |-> recs, promises |-> <<>>, phases |-> phases]
             ELSE [status |-> "Ok", msg |-> "",
                   logs |-> << <<LogPrefix>> \o FormatU128(balance.value) >>,
                   records |-> {kv \in recs : kv[1] # "balance"}
                               \cup {<<"balance", FormatU128(balance.value)>>},
                   promises |-> <<>>, phases |-> phases]

\* pub fn on_get_balance(&self): the outcome of one execution of the method
\* under predecessor pred, current account cur, promise results `results`
\* and contract state recs.  phases lists the steps the execution completed.
on_get_balance(pred, cur, results, recs) ==
    IF pred # cur
    THEN [status |-> "Panicked", msg |-> MsgAuth, logs |-> <<>>,
          records |-> recs, promises |-> <<>>, phases |-> <<>>]
    ELSE LET balance == get_promise_result(results)
             phases == <<"CallbackAuthenticated">> \o balance.phases
         IN  IF balance.panicked
             THEN [status |-> "Panicked", msg |-> balance.msg, logs |-> <<>>,
                   records |-> recs, promises |-> <<>>, phases |-> phases]
             ELSE [status |-> "Ok", msg |-> "",
                   logs |-> << <<LogPrefix>> \o FormatU128(balance.value) >>,
                   records |-> recs, promises |-> <<>>, phases |-> phases]

\* ------------------------------------------------------------------------
\* Accounts and payloads of the model
\* ------------------------------------------------------------------------
\* env::current_account_id() of the Welcome contract
ContractId == "alice_near"
Accounts == {"alice_near", "usdt.token", "bob_near"}
TargetIds == {"alice_near", "usdt.token"}
SubjectIds == {"bob_near", "usdt.token"}

Quoted(s) == <<"\"">> \o s \o <<"\"">>

Alphabet == {"\"", "0", "4", "2", "+", "-", " ", "x", "\\"}
ShortPayloads == UNION {[1..n -> Alphabet] : n \in 0..MaxLen}

MaxDigits == <<"3", "4", "0", "2", "8", "2", "3", "6", "6", "9", "2", "0", "9",
               "3", "8", "4", "6", "3", "4", "6", "3", "3", "7", "4", "6", "0",
               "7", "4", "3", "1", "7", "6", "8", "2", "1", "1", "4", "5", "5">>
P1000 == Quoted(<<"1", "0", "0", "0">>)
PNotANumber == <<"n", "o", "t", "-", "a", "-", "n", "u", "m", "b", "e", "r">>
PMax == Quoted(MaxDigits)
POverflow == Quoted([MaxDigits EXCEPT ![39] = "6"])
PTooLong == Quoted(MaxDigits \o <<"0">>)
PEscaped == Quoted(<<"\\", "u", "0", "0", "3", "4", "\\", "u", "0", "0", "3", "2">>)
PUnquoted == <<"4", "2">>
LongPayloads == {P1000, PNotANumber, PMax, POverflow, PTooLong, PEscaped}

\* what a remote ft_balance_of may return in the chains of the model
ChainPayloads == {P1000, PUnquoted}
ChainOutcomes == {Failed} \cup {Successful(p) : p \in ChainPayloads}

\* promise results a test context may hold
TestPayloads == ShortPayloads \cup LongPayloads
TestOutcomes == {Failed, NotReady} \cup {Successful(p) : p \in TestPayloads}
SmallOutcomes == ChainOutcomes \cup {NotReady}
TestResults ==
    {<<>>} \cup {<<o>> : o \in TestOutcomes}
           \cup {<<o1, o2>> : o1 \in SmallOutcomes, o2 \in SmallOutcomes}

\* ------------------------------------------------------------------------
\* Promise construction
\* ------------------------------------------------------------------------
FunctionCall(method, args, deposit, gas) ==
    [method |-> method, args |-> args, deposit |-> deposit, gas |-> gas]

\* Promise::new(account_id)
PromiseNew(account_id) == [receiver |-> account_id, actions |-> <<>>, after |-> <<>>]

\* Promise::function_call(self, method, args, deposit, gas)
PromiseFunctionCall(p, method, args, deposit, gas) ==
    [p EXCEPT !.actions = Append(@, FunctionCall(method, args, deposit, gas))]

\* Promise::then(self, other): other runs after self and receives its result
PromiseThen(p, other) == [other EXCEPT !.after = <<[receiver |-> p.receiver, actions |-> p.actions]>>]

\* serde_json::to_vec(&json!({"account_id": id}))
JsonAccountIdObject(id) == <<"{", "\"account_id\"", ":", "\"", id, "\"", "}">>

\* the argument struct that #[ext_contract] serializes for
\* ft_balance_of(&self, account_id: AccountId)
SerializeFtBalanceOfArgs(account_id) ==
    <<"{">> \o <<"\"account_id\"", ":">> \o <<"\"", account_id, "\"">> \o <<"}">>

\* ext_self::on_get_balance(receiver, deposit, gas)
ext_self_on_get_balance(receiver, deposit, gas) ==
    PromiseFunctionCall(PromiseNew(receiver), "on_get_balance", <<>>, deposit, gas)

\* ext_fungible_token::ft_balance_of(account_id, receiver, deposit, gas)
ext_fungible_token_ft_balance_of(account_id, receiver, deposit, gas) ==
    PromiseFunctionCall(PromiseNew(receiver), "ft_balance_of",
                        SerializeFtBalanceOfArgs(account_id), deposit, gas)

\* the callback is created but not chained with then
get_ft_balance1_Detached(cur, contract_id, account_id) ==
    ext_self_on_get_balance(cur, NO_DEPOSIT, GAS_BASE_COMPUTE)

\* only the remote call is returned, no callback is chained
get_ft_balance1_NoCallback(cur, contract_id, account_id) ==
    PromiseFunctionCall(PromiseNew(contract_id), "ft_balance_of",
                        JsonAccountIdObject(account_id),
                        NO_DEPOSIT, GAS_BASE_COMPUTE)

\* pub fn get_ft_balance1(&self, contract_id, account_id) -> Promise
get_ft_balance1(cur, contract_id, account_id) ==
    PromiseThen(
        PromiseFunctionCall(PromiseNew(contract_id), "ft_balance_of",
                            JsonAccountIdObject(account_id),
                            NO_DEPOSIT, GAS_BASE_COMPUTE),
        ext_self_on_get_balance(cur, NO_DEPOSIT, GAS_BASE_COMPUTE))

\* the argument and the receiver of the binding exchanged
get_ft_balance2_Swapped(cur, contract_id, account_id) ==
    PromiseThen(
        ext_fungible_token_ft_balance_of(contract_id, account_id,
                                         NO_DEPOSIT, GAS_BASE_COMPUTE),
        ext_self_on_get_balance(cur, NO_DEPOSIT, GAS_BASE_COMPUTE))

\* the callback is addressed to the token contract
get_ft_balance2_CallbackToTarget(cur, contract_id, account_id) ==
    PromiseThen(
        ext_fungible_token_ft_balance_of(account_id, contract_id,
                                         NO_DEPOSIT, GAS_BASE_COMPUTE),
        ext_self_on_get_balance(contract_id, NO_DEPOSIT, GAS_BASE_COMPUTE))

\* pub fn get_ft_balance2(&self, contract_id, account_id) -> Promise
get_ft_balance2(cur, contract_id, account_id) ==
    PromiseThen(
        ext_fungible_token_ft_balance_of(account_id, contract_id,
                                         NO_DEPOSIT, GAS_BASE_COMPUTE),
        ext_self_on_get_balance(cur, NO_DEPOSIT, GAS_BASE_COMPUTE))

\* ------------------------------------------------------------------------
\* State
\* ------------------------------------------------------------------------
VARIABLES
    records,   \* Welcome.records, a set of <<key, value>> pairs
    chains,    \* the chains scheduled so far, in order of scheduling
    exec       \* the last execution of on_get_balance outside a chain

vars == <<records, chains, exec>>

NoExec == [ran |-> FALSE]

RemoteFinal == {"RemoteSucceeded", "RemoteFailed"}
Terminal == {"Reported", "AbortedAuthFailure", "AbortedBadOutcomeShape",
             "AbortedRemoteFailure"}

\* the terminal state an execution of on_get_balance leaves its chain in
TerminalOf(r) ==
    IF r.status = "Ok" THEN "Reported"
    ELSE IF r.msg = MsgAuth THEN "AbortedAuthFailure"
    ELSE IF r.msg = MsgShape THEN "AbortedBadOutcomeShape"
    ELSE "AbortedRemoteFailure"

\* the state of a chain in the terms of the state machine of the protocol
ChainState(c) == IF c.cb # "Pending" THEN c.cb ELSE c.remote

\* the function calls of one promise, as receiver and method
PromiseCalls(p) ==
    [k \in 1..Len(p.actions) |->
        [receiver |-> p.receiver, method |-> p.actions[k].method]]

\* the function calls that scheduling promise p schedules: those of the
\* promise it was chained after, then its own
AllCalls(p) ==
    (IF p.after = <<>> THEN <<>> ELSE PromiseCalls(p.after[1])) \o PromiseCalls(p)

\* the function calls of the promises ps that an execution created
CallsOf(ps) ==
    LET f[k \in 0..Len(ps)] ==
            IF k = 0 THEN <<>> ELSE f[k - 1] \o AllCalls(ps[k])
    IN  f[Len(ps)]

NewChain(entry, contract_id, account_id, promise) ==
    [entry |-> entry, contract_id |-> contract_id, account_id |-> account_id,
     promise |-> promise, remote |-> "Scheduled", outcome |-> NotReady,
     cb |-> "Pending", delivered |-> <<>>, msg |-> "", logs |-> <<>>,
     trace |-> <<"Scheduled">>, calls |-> AllCalls(promise)]

Init ==
    /\ records = {}
    /\ chains = <<>>
    /\ exec = NoExec

\* ------------------------------------------------------------------------
\* Operations
\* ------------------------------------------------------------------------
\* only the contract itself may start a chain
Invoke_get_ft_balance1_OwnerOnly(pred, cur, contract_id, account_id) ==
    IF pred # cur
    THEN [status |-> "Panicked", msg |-> MsgAuth, promise |-> PromiseNew(cur)]
    ELSE [status |-> "Ok", msg |-> "",
          promise |-> get_ft_balance1(cur, contract_id, account_id)]

\* the outcome of a call of get_ft_balance1 made by account pred: the method
\* is public, checks nothing and returns the promise it built
Invoke_get_ft_balance1(pred, cur, contract_id, account_id) ==
    [status |-> "Ok", msg |-> "",
     promise |-> get_ft_balance1(cur, contract_id, account_id)]

\* the outcome of a call of get_ft_balance2 made by account pred
Invoke_get_ft_balance2(pred, cur, contract_id, account_id) ==
    [status |-> "Ok", msg |-> "",
     promise |-> get_ft_balance2(cur, contract_id, account_id)]

\* account caller calls get_ft_balance1(contract_id, account_id): the
\* returned promise is scheduled
GetFtBalance1By(caller, contract_id, account_id) ==
    /\ Len(chains) < MaxChains
    /\ \E r \in {Invoke_get_ft_balance1(caller, ContractId, contract_id, account_id)} :
         /\ r.status = "Ok"
         /\ chains' = Append(chains,
                             NewChain(1, contract_id, account_id, r.promise))
    /\ UNCHANGED <<records, exec>>

\* account caller calls get_ft_balance2(contract_id, account_id)
GetFtBalance2By(caller, contract_id, account_id) ==
    /\ Len(chains) < MaxChains
    /\ \E r \in {Invoke_get_ft_balance2(caller, ContractId, contract_id, account_id)} :
         /\ r.status = "Ok"
         /\ chains' = Append(chains,
                             NewChain(2, contract_id, account_id, r.promise))
    /\ UNCHANGED <<records, exec>>

\* any account calls get_ft_balance1
CallGetFtBalance1 ==
    \E caller \in Accounts, contract_id \in TargetIds, account_id \in SubjectIds :
        GetFtBalance1By(caller, contract_id, account_id)

\* any account calls get_ft_balance2
CallGetFtBalance2 ==
    \E caller \in Accounts, contract_id \in TargetIds, account_id \in SubjectIds :
        GetFtBalance2By(caller, contract_id, account_id)

\* the host starts the remote call of chain i
StartRemote(i) ==
    /\ chains[i].remote = "Scheduled"
    /\ chains' = [chains EXCEPT ![i].remote = "RemoteExecuting",
                                ![i].trace = Append(@, "RemoteExecuting")]
    /\ UNCHANGED <<records, exec>>

\* the remote call of chain i finishes.  Welcome has no ft_balance_of, so a
\* call whose target is the contract itself fails.
ResolveRemote(i) ==
    /\ chains[i].remote = "RemoteExecuting"
    /\ \E o \in ChainOutcomes :
         LET st == IF o.tag = "Successful" THEN "RemoteSucceeded"
                   ELSE "RemoteFailed"
         IN  /\ chains[i].contract_id = ContractId => o = Failed
             /\ chains' = [chains EXCEPT ![i].remote = st,
                                         ![i].outcome = o,
                                         ![i].trace = Append(@, st)]
    /\ UNCHANGED <<records, exec>>

\* the host runs the receipt of the promise that chain i returned, when it
\* is a call of on_get_balance on this contract, once every promise it was
\* chained after has a result; the predecessor is the contract, which
\* created the receipt
RunCallback(i) ==
    LET c == chains[i]
        results == [k \in 1..Len(c.promise.after) |-> c.outcome]
    IN  /\ c.cb = "Pending"
        /\ c.promise.receiver = ContractId
        /\ Len(c.promise.actions) = 1
        /\ c.promise.actions[1].method = "on_get_balance"
        /\ c.promise.after # <<>> => c.remote \in RemoteFinal
        /\ \E r \in {on_get_balance(ContractId, c.promise.receiver, results, records)} :
             /\ chains' = [chains EXCEPT
                    ![i].cb = TerminalOf(r),
                    ![i].delivered = results,
                    ![i].msg = r.msg,
                    ![i].logs = r.logs,
                    ![i].trace = @ \o r.phases \o <<TerminalOf(r)>>,
                    ![i].calls = IF r.status = "Ok"
                                 THEN @ \o CallsOf(r.promises) ELSE @]
             /\ records' = IF r.status = "Ok" THEN r.records ELSE records
        /\ UNCHANGED exec

Execution(pred, results, r) ==
    [ran |-> TRUE, pred |-> pred, results |-> results, status |-> r.status,
     msg |-> r.msg, logs |-> r.logs, phases |-> r.phases, before |-> records]

\* on_get_balance run outside a chain, in a context (VMContext) with any
\* predecessor and any promise results
TestCallback ==
    /\ exec = NoExec
    /\ \E pred \in Accounts, results \in TestResults :
         \E r \in {on_get_balance(pred, ContractId, results, records)} :
             /\ exec' = Execution(pred, results, r)
             /\ records' = IF r.status = "Ok" THEN r.records ELSE records
    /\ UNCHANGED chains

Next ==
    \/ CallGetFtBalance1
    \/ CallGetFtBalance2
    \/ \E i \in 1..Len(chains) : StartRemote(i)
    \/ \E i \in 1..Len(chains) : ResolveRemote(i)
    \/ \E i \in 1..Len(chains) : RunCallback(i)

Spec == Init /\ [][Next]_vars

\* a step of the host on one of the receipts it holds
HostStep ==
    \E i \in 1..Len(chains) : StartRemote(i) \/ ResolveRemote(i) \/ RunCallback(i)

\* the host does not stop while it holds a receipt that can run; every step
\* consumes a receipt, so that no receipt waits forever
FairSpec == Spec /\ WF_vars(HostStep)

\* on_get_balance is a public method: any account calls it in a transaction
\* of its own, where no promise result exists
DirectCall ==
    /\ exec = NoExec
    /\ \E pred \in Accounts :
         \E r \in {on_get_balance(pred, ContractId, <<>>, records)} :
             /\ exec' = Execution(pred, <<>>, r)
             /\ records' = IF r.status = "Ok" THEN r.records ELSE records
    /\ UNCHANGED chains

\* the chains together with direct calls of the callback
OpenNext ==
    \/ CallGetFtBalance1
    \/ CallGetFtBalance2
    \/ \E i \in 1..Len(chains) : StartRemote(i)
    \/ \E i \in 1..Len(chains) : ResolveRemote(i)
    \/ \E i \in 1..Len(chains) : RunCallback(i)
    \/ DirectCall

OpenSpec == Init /\ [][OpenNext]_vars

\* on_get_balance alone, over the contexts a test can set up
CallbackSpec == Init /\ [][TestCallback]_vars

\* ------------------------------------------------------------------------
\* Properties
\* ------------------------------------------------------------------------
\* digit strings of equal length: a <= b in the order of their values
DigitsLeq(a, b) ==
    \/ a = b
    \/ \E k \in 1..Len(a) :
         /\ DigitVal(a[k]) < DigitVal(b[k])
         /\ \A j \in 1..(k - 1) : a[j] = b[j]

\* s is the decimal numeral, without sign or leading zeros, of a value in
\* 0 .. 2^128 - 1
IsDecimal(s) ==
    /\ Len(s) >= 1
    /\ \A k \in 1..Len(s) : s[k] \in DigitChars
    /\ Len(s) > 1 => s[1] # "0"
    /\ \/ Len(s) < Len(MaxDigits)
       \/ Len(s) = Len(MaxDigits) /\ DigitsLeq(s, MaxDigits)

\* b is the quoted decimal encoding of a value in 0 .. 2^128 - 1
IsQuotedDecimal(b) ==
    /\ Len(b) >= 3
    /\ b[1] = "\"" /\ b[Len(b)] = "\""
    /\ IsDecimal(SubSeq(b, 2, Len(b) - 1))

Report(s) == <<LogPrefix>> \o s

Aborted(e, msg) == e.status = "Panicked" /\ e.msg = msg /\ e.logs = <<>>

\* C1: on_get_balance called by a predecessor other than the current account
\* aborts with the authorization failure and logs nothing, whatever the
\* number and the content of the promise results.
C1_ForeignCallerRejected ==
    (exec.ran /\ exec.pred # ContractId) => Aborted(exec, MsgAuth)

\* a foreign caller was rejected although a decodable Successful result was
\* present
C1_Witness ==
    /\ exec.ran /\ exec.pred # ContractId
    /\ exec.results = <<Successful(Quoted(<<"4", "2">>))>>
    /\ Aborted(exec, MsgAuth)

\* C2 as stated: zero or two promise results abort with the outcome-shape
\* error whoever the caller is.
C2_ShapeErrorAnyCaller ==
    (exec.ran /\ Len(exec.results) \in {0, 2}) => Aborted(exec, MsgShape)

\* C2 amended: zero or two promise results always abort without a report;
\* with the outcome-shape error when the caller is the current account, with
\* the authorization failure when it is not.
C2_ShapeErrorOwnCaller ==
    (exec.ran /\ Len(exec.results) \in {0, 2}) =>
        IF exec.pred = ContractId THEN Aborted(exec, MsgShape)
        ELSE Aborted(exec, MsgAuth)

\* the contract itself called with two results, the first of them decodable
C2_Witness ==
    /\ exec.ran /\ exec.pred = ContractId
    /\ Len(exec.results) = 2
    /\ exec.results[1] = Successful(P1000)
    /\ Aborted(exec, MsgShape)

\* C3: called by the current account with one Successful result holding the
\* quoted decimal encoding of n in 0 .. 2^128 - 1, on_get_balance does not
\* abort and logs exactly "The received balance is n".
C3_DecodedValueReported ==
    (/\ exec.ran /\ exec.pred = ContractId
     /\ Len(exec.results) = 1
     /\ exec.results[1].tag = "Successful"
     /\ IsQuotedDecimal(exec.results[1].bytes))
    => /\ exec.status = "Ok"
       /\ exec.logs = <<Report(SubSeq(exec.results[1].bytes, 2,
                                      Len(exec.results[1].bytes) - 1))>>

\* the largest value, 2^128 - 1, was reported
C3_Witness ==
    /\ exec.ran /\ exec.pred = ContractId
    /\ exec.results = <<Successful(PMax)>>
    /\ exec.logs = <<Report(MaxDigits)>>

\* C4: called by the current account with one Successful result whose
\* payload does not decode as a U128, on_get_balance does not abort and
\* logs the value 0.
C4_DecodeFallbackZero ==
    (/\ exec.ran /\ exec.pred = ContractId
     /\ Len(exec.results) = 1
     /\ exec.results[1].tag = "Successful"
     /\ ~FromSliceU128(exec.results[1].bytes).some)
    => /\ exec.status = "Ok"
       /\ exec.logs = <<Report(<<"0">>)>>
       /\ exec.phases = <<"CallbackAuthenticated", "CallbackOutcomeRetrieved",
                          "DecodeFallbackZero">>

\* the payload not-a-number was reported as 0
C4_Witness ==
    /\ exec.ran /\ exec.pred = ContractId
    /\ exec.results = <<Successful(PNotANumber)>>
    /\ exec.logs = <<Report(<<"0">>)>>

\* C5: called by the current account with one result that is Failed or
\* NotReady, on_get_balance aborts with "Promise was not successful" and
\* logs nothing.
C5_RemoteFailureAborts ==
    (/\ exec.ran /\ exec.pred = ContractId
     /\ Len(exec.results) = 1
     /\ exec.results[1].tag \in {"Failed", "NotReady"})
    => Aborted(exec, MsgRemote)

\* a Failed result delivered to the contract's own call aborted it
C5_Witness ==
    /\ exec.ran /\ exec.pred = ContractId
    /\ exec.results = <<Failed>>
    /\ Aborted(exec, MsgRemote)

\* the remote call every chain is meant to schedule
ExpectedRemote(c) ==
    [receiver |-> c.contract_id,
     actions |-> <<FunctionCall("ft_balance_of",
                                <<"{", "\"account_id\"", ":", "\"",
                                  c.account_id, "\"", "}">>,
                                NO_DEPOSIT, GAS_BASE_COMPUTE)>>]

\* C6: chains started by get_ft_balance1 and get_ft_balance2 with the same
\* identities schedule the same remote call (target contract_id, operation
\* ft_balance_of, argument {account_id}, same deposit and gas) and the same
\* callback; with the same remote outcome they pass through the same states
\* and end in the same terminal state with the same report.
C6_EntryPointsEquivalent ==
    \A i \in 1..Len(chains), j \in 1..Len(chains) :
        (/\ chains[i].entry = 1 /\ chains[j].entry = 2
         /\ chains[i].contract_id = chains[j].contract_id
         /\ chains[i].account_id = chains[j].account_id)
        => /\ chains[i].promise = chains[j].promise
           /\ chains[i].promise.after = <<ExpectedRemote(chains[i])>>
           /\ chains[j].promise.after = <<ExpectedRemote(chains[j])>>
           /\ (/\ chains[i].outcome = chains[j].outcome
               /\ chains[i].cb \in Terminal /\ chains[j].cb \in Terminal)
              => /\ chains[i].cb = chains[j].cb
                 /\ chains[i].trace = chains[j].trace
                 /\ chains[i].logs = chains[j].logs
                 /\ chains[i].msg = chains[j].msg

\* one chain of each entry point, same identities and outcome, both reported
C6_Witness ==
    \E i \in 1..Len(chains), j \in 1..Len(chains) :
        /\ chains[i].entry = 1 /\ chains[j].entry = 2
        /\ chains[i].contract_id = "usdt.token" /\ chains[j].contract_id = "usdt.token"
        /\ chains[i].account_id = "bob_near" /\ chains[j].account_id = "bob_near"
        /\ chains[i].outcome = Successful(P1000)
        /\ chains[j].outcome = Successful(P1000)
        /\ chains[i].cb = "Reported" /\ chains[j].cb = "Reported"

\* C7: in every chain the callback does not run before the outcome of the
\* remote call is final, and it is delivered exactly one result, the outcome
\* of the remote call of its own chain.
C7_CallbackAfterRemote ==
    \A i \in 1..Len(chains) :
        chains[i].cb # "Pending"
        => /\ chains[i].remote \in RemoteFinal
           /\ chains[i].outcome.tag \in {"Successful", "Failed"}
           /\ chains[i].delivered = <<chains[i].outcome>>

\* a callback ran while another chain was still waiting for its remote call
C7_Witness ==
    \E i \in 1..Len(chains), j \in 1..Len(chains) :
        /\ chains[i].cb # "Pending" /\ chains[i].entry = 1
        /\ chains[j].cb = "Pending" /\ chains[j].remote = "RemoteExecuting"

\* C8: under fair scheduling by the host every scheduled chain reaches one
\* of the terminal states Reported, AbortedAuthFailure,
\* AbortedBadOutcomeShape, AbortedRemoteFailure; no chain is dropped, and a
\* chain in a terminal state does not change any more.
C8_ChainsTerminate ==
    /\ \A i \in 1..MaxChains :
         [](i <= Len(chains) => <>(i <= Len(chains) /\ chains[i].cb \in Terminal))
    /\ [][/\ Len(chains') >= Len(chains)
          /\ \A i \in 1..Len(chains) :
               chains[i].cb \in Terminal => chains'[i] = chains[i]]_vars

\* every chain of a full run is in a terminal state
C8_Witness ==
    /\ Len(chains) = MaxChains
    /\ \A i \in 1..Len(chains) : chains[i].cb \in Terminal
    /\ \E i \in 1..Len(chains) : chains[i].cb = "Reported"
    /\ \E i \in 1..Len(chains) : chains[i].cb = "AbortedRemoteFailure"

\* C9: a chain whose remote call resolved to Successful with the quoted
\* decimal encoding of n ends, when its callback has run, in Reported with
\* exactly one log line, "The received balance is n"; no callback execution
\* writes more than one log line.
C9_EndToEndReport ==
    \A i \in 1..Len(chains) :
        /\ Len(chains[i].logs) <= 1
        /\ (/\ chains[i].cb # "Pending"
            /\ chains[i].outcome.tag = "Successful"
            /\ IsQuotedDecimal(chains[i].outcome.bytes))
           => /\ chains[i].cb = "Reported"
              /\ chains[i].logs =
                    <<Report(SubSeq(chains[i].outcome.bytes, 2,
                                    Len(chains[i].outcome.bytes) - 1))>>

\* get_ft_balance1("usdt.token", "bob_near") resolved to "1000" and reported
C9_Witness ==
    \E i \in 1..Len(chains) :
        /\ chains[i].entry = 1
        /\ chains[i].contract_id = "usdt.token"
        /\ chains[i].account_id = "bob_near"
        /\ chains[i].outcome = Successful(P1000)
        /\ chains[i].cb = "Reported"
        /\ chains[i].logs = <<Report(<<"1", "0", "0", "0">>)>>

\* C10: an execution of on_get_balance that aborts (authorization failure,
\* outcome-shape error, remote failure) has written no log line and leaves
\* the state of the contract as it was before the call.
C10_AbortNoSideEffect ==
    (exec.ran /\ exec.status = "Panicked")
    => /\ exec.msg \in {MsgAuth, MsgShape, MsgRemote}
       /\ exec.logs = <<>>
       /\ records = exec.before

\* an abort late in the handler: authenticated, one result, NotReady
C10_Witness ==
    /\ exec.ran /\ exec.status = "Panicked"
    /\ exec.pred = ContractId
    /\ exec.results = <<NotReady>>
    /\ exec.phases = <<"CallbackAuthenticated", "CallbackOutcomeRetrieved">>

\* C11: in every chain, from either entry point and for every target and
\* subject, the remote call and the callback are one function call each,
\* both with the gas GAS_BASE_COMPUTE and the deposit NO_DEPOSIT, and the
\* callback is on_get_balance on the current account.
C11_FixedGasZeroDepositOwnCallback ==
    \A i \in 1..Len(chains) :
        LET cb == chains[i].promise
        IN  /\ Len(cb.after) = 1
            /\ Len(cb.after[1].actions) = 1
            /\ Len(cb.actions) = 1
            /\ cb.after[1].actions[1].gas = GAS_BASE_COMPUTE
            /\ cb.actions[1].gas = cb.after[1].actions[1].gas
            /\ cb.after[1].actions[1].deposit = NO_DEPOSIT
            /\ cb.actions[1].deposit = NO_DEPOSIT
            /\ cb.receiver = ContractId
            /\ cb.actions[1].method = "on_get_balance"

\* both entry points used, with targets and subjects that differ and a
\* subject that is the target itself
C11_Witness ==
    /\ Len(chains) = 2
    /\ chains[1].entry = 1 /\ chains[2].entry = 2
    /\ chains[1].contract_id = "alice_near" /\ chains[1].account_id = "bob_near"
    /\ chains[2].contract_id = "usdt.token" /\ chains[2].account_id = "usdt.token"
    /\ chains[2].promise.receiver = ContractId
    /\ chains[2].promise.after[1].receiver = "usdt.token"

\* the transitions of the state machine of a chain
Transitions ==
    {<<"Scheduled", "RemoteExecuting">>,
     <<"RemoteExecuting", "RemoteSucceeded">>,
     <<"RemoteExecuting", "RemoteFailed">>,
     <<"RemoteSucceeded", "CallbackAuthenticated">>,
     <<"RemoteFailed", "CallbackAuthenticated">>,
     <<"CallbackAuthenticated", "CallbackOutcomeRetrieved">>,
     <<"CallbackOutcomeRetrieved", "Decoded">>,
     <<"CallbackOutcomeRetrieved", "DecodeFallbackZero">>,
     <<"Decoded", "Reported">>,
     <<"DecodeFallbackZero", "Reported">>}
    \cup {<<"RemoteSucceeded", "AbortedAuthFailure">>,
          <<"RemoteFailed", "AbortedAuthFailure">>,
          <<"CallbackAuthenticated", "AbortedBadOutcomeShape">>,
          <<"CallbackOutcomeRetrieved", "AbortedRemoteFailure">>}

\* C12: the states a chain has gone through start at Scheduled and follow
\* the transitions of the state machine only, nothing follows a terminal
\* state, and the checks of the callback run in the order caller, count,
\* tag: a call with a foreign caller and a count other than one ends in
\* AbortedAuthFailure before anything else is done, a call by the contract
\* with a count other than one passes the caller check and ends in
\* AbortedBadOutcomeShape without the outcome being retrieved.
C12_StateMachineOrder ==
    /\ \A i \in 1..Len(chains) :
         LET t == chains[i].trace
         IN  /\ t[1] = "Scheduled"
             /\ t[Len(t)] = ChainState(chains[i])
             /\ \A k \in 1..(Len(t) - 1) :
                  /\ <<t[k], t[k + 1]>> \in Transitions
                  /\ t[k] \notin Terminal
    /\ (exec.ran /\ Len(exec.results) # 1) =>
         IF exec.pred # ContractId
         THEN /\ Aborted(exec, MsgAuth)
              /\ exec.phases = <<>>
         ELSE /\ Aborted(exec, MsgShape)
              /\ exec.phases = <<"CallbackAuthenticated">>

\* a chain went through every state up to Reported, another one aborted on
\* the remote failure, and a foreign account called the callback directly
C12_Witness ==
    /\ exec.ran /\ exec.pred = "bob_near" /\ exec.results = <<>>
    /\ \E i \in 1..Len(chains) :
         chains[i].trace = <<"Scheduled", "RemoteExecuting", "RemoteSucceeded",
                             "CallbackAuthenticated", "CallbackOutcomeRetrieved",
                             "Decoded", "Reported">>
    /\ \E i \in 1..Len(chains) :
         chains[i].trace = <<"Scheduled", "RemoteExecuting", "RemoteFailed",
                             "CallbackAuthenticated", "CallbackOutcomeRetrieved",
                             "AbortedRemoteFailure">>

\* C13: a chain whose remote call failed (the execution of ft_balance_of
\* aborted, by gas exhaustion or otherwise) is not abandoned: the host goes
\* on to run on_get_balance with the single result Failed, and the chain
\* ends in AbortedRemoteFailure without a report.
C13_FailedRemoteStillCalledBack ==
    \A i \in 1..MaxChains :
        (i <= Len(chains) /\ chains[i].remote = "RemoteFailed")
        ~> (/\ i <= Len(chains)
            /\ chains[i].delivered = <<Failed>>
            /\ chains[i].cb = "AbortedRemoteFailure"
            /\ chains[i].msg = MsgRemote
            /\ chains[i].logs = <<>>)

\* the call to the token contract failed and the callback has run
C13_Witness ==
    \E i \in 1..Len(chains) :
        /\ chains[i].contract_id = "usdt.token"
        /\ chains[i].remote = "RemoteFailed"
        /\ chains[i].delivered = <<Failed>>
        /\ chains[i].cb = "AbortedRemoteFailure"

\* the calls of method m among the function calls scheduled for chain c
CallsTo(c, m) == {k \in 1..Len(c.calls) : c.calls[k].method = m}

\* C14: for every chain, in every state up to and including its terminal
\* state, exactly one remote call ft_balance_of, to the target of the
\* chain, and exactly one callback on_get_balance have been scheduled, and
\* nothing else: the entry point schedules both, the callback none.
C14_OneRemoteCallOneCallback ==
    \A i \in 1..Len(chains) :
        /\ Len(chains[i].calls) = 2
        /\ Cardinality(CallsTo(chains[i], "ft_balance_of")) = 1
        /\ Cardinality(CallsTo(chains[i], "on_get_balance")) = 1
        /\ chains[i].calls[1] =
               [receiver |-> chains[i].contract_id, method |-> "ft_balance_of"]
        /\ chains[i].calls[2] =
               [receiver |-> ContractId, method |-> "on_get_balance"]

\* one chain ended in AbortedRemoteFailure and one in Reported, each with
\* its single remote call
C14_Witness ==
    /\ Len(chains) = 2
    /\ chains[1].cb = "AbortedRemoteFailure" /\ chains[1].entry = 1
    /\ chains[2].cb = "Reported" /\ chains[2].entry = 2
    /\ \A i \in 1..2 : Cardinality(CallsTo(chains[i], "ft_balance_of")) = 1

\* the chain that a scheduling step has just appended is in Scheduled and
\* nothing has failed or been logged
ScheduledLast ==
    /\ Len(chains') = Len(chains) + 1
    /\ ChainState(chains'[Len(chains')]) = "Scheduled"
    /\ chains'[Len(chains')].msg = ""
    /\ chains'[Len(chains')].logs = <<>>
    /\ \A i \in 1..Len(chains) : chains'[i] = chains[i]

\* C15: get_ft_balance1 and get_ft_balance2 can be called by every account
\* with every pair of identities, the target being the contract itself or
\* the subject included: the call cannot fail, and it ends with a new chain
\* in Scheduled and the other chains untouched.
C15_SchedulingNeverFails ==
    Len(chains) < MaxChains =>
        \A caller \in Accounts, contract_id \in TargetIds, account_id \in SubjectIds :
            /\ ENABLED (GetFtBalance1By(caller, contract_id, account_id)
                        /\ ScheduledLast)
            /\ ENABLED (GetFtBalance2By(caller, contract_id, account_id)
                        /\ ScheduledLast)

\* the chain of a call whose target is the contract itself is in
\* Scheduled, and a further call can be made
C15_Witness ==
    /\ Len(chains) = 1
    /\ Len(chains) < MaxChains
    /\ chains[1].entry = 2
    /\ chains[1].contract_id = ContractId
    /\ ChainState(chains[1]) = "Scheduled"

\* C16: a log line is written only by an execution of on_get_balance whose
\* caller is the current account and whose promise results are exactly one
\* Successful result, and then it is the single report.  A call by the
\* contract itself with no promise result, as made outside any chain, passes
\* the caller check and aborts with the outcome-shape error: there is no
\* report without the result of a remote call.
C16_ReportOnlyFromResolvedCall ==
    /\ (exec.ran /\ exec.logs # <<>>) =>
         /\ exec.pred = ContractId
         /\ Len(exec.results) = 1
         /\ exec.results[1].tag = "Successful"
         /\ exec.status = "Ok"
         /\ Len(exec.logs) = 1
    /\ (exec.ran /\ exec.pred = ContractId /\ exec.results = <<>>) =>
         /\ Aborted(exec, MsgShape)
         /\ exec.phases = <<"CallbackAuthenticated">>

\* the contract called on_get_balance itself, with no promise result
C16_Witness ==
    /\ exec.ran /\ exec.pred = ContractId /\ exec.results = <<>>
    /\ exec.status = "Panicked" /\ exec.msg = MsgShape

\* C17: with several chains in flight, from any mix of the entry points and
\* in any interleaving, the callback of a chain receives the outcome of the
\* remote call of that chain only, and the terminal state and the report of
\* the chain are determined by that outcome: Failed gives AbortedRemoteFailure
\* without a report, a quoted decimal is reported with its own digits, an
\* unquoted payload as 0, and two chains with the same outcome end alike
\* whatever the other chains did.
C17_ChainsIndependent ==
    /\ \A i \in 1..Len(chains) :
         LET c == chains[i]
         IN  c.cb # "Pending" =>
               /\ c.delivered = <<c.outcome>>
               /\ c.outcome.tag # "Successful" =>
                     c.cb = "AbortedRemoteFailure" /\ c.logs = <<>>
               /\ c.outcome.tag = "Successful" =>
                     /\ c.cb = "Reported"
                     /\ IsQuotedDecimal(c.outcome.bytes) =>
                          c.logs = <<Report(SubSeq(c.outcome.bytes, 2,
                                                   Len(c.outcome.bytes) - 1))>>
                     /\ c.outcome.bytes[1] # "\"" => c.logs = <<Report(<<"0">>)>>
    /\ \A i, j \in 1..Len(chains) :
         (/\ chains[i].cb # "Pending" /\ chains[j].cb # "Pending"
          /\ chains[i].outcome = chains[j].outcome)
         => /\ chains[i].cb = chains[j].cb
            /\ chains[i].msg = chains[j].msg
            /\ chains[i].logs = chains[j].logs

\* the second chain, of the other entry point, has reported its own 0 while
\* the first one still waits for its callback with the result "1000"
C17_Witness ==
    /\ Len(chains) = 2
    /\ chains[1].entry = 1 /\ chains[2].entry = 2
    /\ chains[1].remote = "RemoteSucceeded" /\ chains[1].cb = "Pending"
    /\ chains[1].outcome = Successful(P1000)
    /\ chains[2].outcome = Successful(PUnquoted)
    /\ chains[2].cb = "Reported"
    /\ chains[2].logs = <<Report(<<"0">>)>>

\* a store that holds a greeting
OtherRecords == {<<"bob_near", "hello">>}

\* what on_get_balance did in a run is what it does on a different store,
\* which it hands back as it got it
SameOnOtherRecords(results, pred, status, msg, logs) ==
    LET r == on_get_balance(pred, ContractId, results, OtherRecords)
    IN  /\ r.status = status /\ r.msg = msg /\ r.logs = logs
        /\ r.records = OtherRecords

\* C18: no step of any chain and no call of on_get_balance, whether it ends
\* in a report or in an abort, changes records, and what the callback does
\* does not depend on the content of records; the two entry points build
\* their promise from their arguments and the current account alone.
C18_RecordsUntouched ==
    /\ [][records' = records]_vars
    /\ [](\A i \in 1..Len(chains) :
            /\ chains[i].promise \in
                  {get_ft_balance1(ContractId, chains[i].contract_id,
                                   chains[i].account_id),
                   get_ft_balance2(ContractId, chains[i].contract_id,
                                   chains[i].account_id)}
            /\ chains[i].cb # "Pending" =>
                  SameOnOtherRecords(chains[i].delivered, ContractId,
                                     IF chains[i].cb = "Reported"
                                     THEN "Ok" ELSE "Panicked",
                                     chains[i].msg, chains[i].logs))
    /\ [](exec.ran =>
            SameOnOtherRecords(exec.results, exec.pred, exec.status,
                               exec.msg, exec.logs))

\* a chain has reported, another one has aborted, the callback was called
\* directly, and records is as it was constructed
C18_Witness ==
    /\ records = {}
    /\ exec.ran
    /\ \E i \in 1..Len(chains) : chains[i].cb = "Reported"
    /\ \E i \in 1..Len(chains) : chains[i].cb = "AbortedRemoteFailure"

\* s is one or more decimal digits
AllDigitChars(s) == Len(s) >= 1 /\ \A k \in 1..Len(s) : s[k] \in DigitChars

\* payload b is a quoted decimal string of the value whose numeral is d: a
\* JSON string whose content is decimal digits, after an optional plus sign,
\* that denote the value of d, a value in 0 .. 2^128 - 1
IsQuotedDecimalOf(b, d) ==
    LET r == FromSliceString(b)
        digits == IF r.s # <<>> /\ r.s[1] = "+" THEN Tail(r.s) ELSE r.s
    IN  /\ r.ok
        /\ b[SkipWhitespace[b, 1]] = "\""
        /\ AllDigitChars(digits)
        /\ StripZeros[digits] = d
        /\ IsDecimal(d)

\* d is the numeral of a value of 2^128 or more
IsTooLarge(d) ==
    /\ AllDigitChars(d) /\ d[1] # "0"
    /\ \/ Len(d) > Len(MaxDigits)
       \/ Len(d) = Len(MaxDigits) /\ ~DigitsLeq(d, MaxDigits)

\* C19: the value that on_get_balance reports is the numeral of an integer
\* in 0 .. 2^128 - 1.  The payload is decoded, and not replaced by 0, only if
\* it is a quoted decimal string of the reported value; an unquoted number,
\* a quoted negative number and a quoted numeral of 2^128 or more are
\* reported as 0, with the same log line as the payload "0".
C19_ReportedValueRange ==
    (exec.ran /\ exec.status = "Ok") =>
        LET b == exec.results[1].bytes
            d == Tail(exec.logs[1])
        IN  /\ exec.logs = <<Report(d)>>
            /\ IsDecimal(d)
            /\ exec.phases[3] \in {"Decoded", "DecodeFallbackZero"}
            /\ exec.phases[3] = "Decoded" => IsQuotedDecimalOf(b, d)
            /\ exec.phases[3] = "DecodeFallbackZero" => d = <<"0">>
            /\ AllDigitChars(b) => d = <<"0">>
            /\ (Len(b) >= 4 /\ b[2] = "-"
                /\ b = Quoted(SubSeq(b, 2, Len(b) - 1))
                /\ AllDigitChars(SubSeq(b, 3, Len(b) - 1))) => d = <<"0">>
            /\ (Len(b) >= 3 /\ b = Quoted(SubSeq(b, 2, Len(b) - 1))
                /\ IsTooLarge(SubSeq(b, 2, Len(b) - 1))) => d = <<"0">>
            /\ d = <<"0">> =>
                   exec.logs = on_get_balance(ContractId, ContractId,
                                   <<Successful(Quoted(<<"0">>))>>, {}).logs

\* the quoted numeral of 2^128 was reported as 0
C19_Witness ==
    /\ exec.ran /\ exec.status = "Ok"
    /\ exec.results = <<Successful(POverflow)>>
    /\ exec.logs = <<Report(<<"0">>)>>

====
